---- MODULE Spec2Model ----
(***************************************************************************)
(* OpenobserveTransport (pino-openobserve): a Transform stream that        *)
(* buffers log lines and ships them in batches to an OpenObserve           *)
(* `_multi` endpoint.  The model follows the TypeScript source             *)
(* (src/unnamed/part_000, lines 84-180); src/index.js is the same engine   *)
(* without the silentSuccess / silentError switches.                       *)
(*                                                                         *)
(* Text (log lines, URLs) is a sequence of fragments; the separators       *)
(* "/" and ":" are fragments of their own.                                *)
(* Node runs every handler to completion on one thread, so each handler,   *)
(* up to its next `await`, is one action.                                  *)
(***************************************************************************)
EXTENDS Integers, Sequences, FiniteSets, TLC

VARIABLES
  phase,              \* "new" (before `new`), "ready" (constructed), "failed" (constructor threw)
  given,              \* the options object handed to the constructor
  created,            \* the instance properties assigned so far
  options,            \* this.options
  logs,               \* this.logs
  timer,              \* this.timer: 0 is null, otherwise a Timeout handle
  apiCallInProgress,  \* this.apiCallInProgress
  apiUrl,             \* this.apiUrl
  hooks,              \* number of 'beforeExit' listeners this instance registered
  liveTimers,         \* the event loop's pending timeouts: [id, delay, at]
  calls,              \* every fetch() issued so far, in order, with its fate
  accepted,           \* every log handed to _transform so far, in order
  thrown,             \* the error the constructor threw, <<>> if none
  ev                  \* what the handler that ran last did

vars == <<phase, given, created, options, logs, timer, apiCallInProgress, apiUrl,
          hooks, liveTimers, calls, accepted, thrown, ev>>

----------------------------------------------------------------------------
(* Bounds of the model *)

MaxAccepts == 3
MaxTimers == 2
MaxBatch == 2

(* Program constants *)

DefaultBatchSize == 100
DefaultTimeThreshold == 5 * 60 * 1000

----------------------------------------------------------------------------
(* Text helpers *)

Min(a, b) == IF a <= b THEN a ELSE b

RECURSIVE Join(_)
\* Array.prototype.join(''): the elements' text, nothing between them
Join(ss) == IF ss = <<>> THEN <<>> ELSE Head(ss) \o Join(Tail(ss))

EndsWithSlash(p) == p # <<>> /\ p[Len(p)] = "/"

\* index of the first "/" of s at or after position i, Len(s)+1 if none
RECURSIVE FirstSlash(_, _)
FirstSlash(s, i) ==
  IF i > Len(s) THEN Len(s) + 1
  ELSE IF s[i] = "/" THEN i ELSE FirstSlash(s, i + 1)

\* index of the first ":" of s at or after position i, Len(s)+1 if none
RECURSIVE FirstColon(_, _)
FirstColon(s, i) ==
  IF i > Len(s) THEN Len(s) + 1
  ELSE IF s[i] = ":" THEN i ELSE FirstColon(s, i + 1)

----------------------------------------------------------------------------
(* Options *)

Absent == [set |-> FALSE, v |-> <<>>]
Text(t) == [set |-> TRUE, v |-> t]
AbsentNum == [set |-> FALSE, v |-> 0]
Num(n) == [set |-> TRUE, v |-> n]
AbsentFlag == [set |-> FALSE, v |-> FALSE]
Flag(b) == [set |-> TRUE, v |-> b]

\* JavaScript truthiness of a string-valued option: undefined and '' are falsy
Falsy(o) == ~o.set \/ o.v = <<>>

\* base addresses by their parts: with and without a port, a path, a trailing slash
UrlCases ==
  [ scheme : {"http"}, host : {<<"host">>}, path : {<<>>, <<"/">>, <<"/", "base", "/">>} ]
  \cup { [scheme |-> "https", host |-> <<"host", ":", "5080">>, path |-> <<"/", "base">>],
         [scheme |-> "https", host |-> <<"host", ":", "5080">>,
          path |-> <<"/", "a", "/", "b", "/">>] }

\* the address as the caller writes it
Compose(c) == <<c.scheme, ":", "/", "/">> \o c.host \o c.path

Urls == { Absent, Text(<<>>) } \cup { Text(Compose(c)) : c \in UrlCases }
Names == { Absent, Text(<<>>), Text(<<"x">>) }
BatchSizes == {AbsentNum} \cup { Num(n) : n \in 1..MaxBatch }
TimeThresholds == { AbsentNum, Num(1000) }
Flags == { AbsentFlag, Flag(TRUE) }

\* an options object with the required options only
Plain ==
  [ url |-> Text(<<"http", ":", "/", "/", "host">>),
    organization |-> Text(<<"x">>), streamName |-> Text(<<"x">>),
    batchSize |-> AbsentNum, timeThreshold |-> AbsentNum,
    silentSuccess |-> AbsentFlag, silentError |-> AbsentFlag ]

\* the options objects the constructor is tried on: every combination of the
\* required options, of the batch size and the two switches, and each time threshold
GivenOptions ==
  { [Plain EXCEPT !.url = u, !.organization = o, !.streamName = n] :
      u \in Urls, o \in Names, n \in Names }
  \cup { [Plain EXCEPT !.batchSize = b, !.silentSuccess = ss, !.silentError = se] :
      b \in BatchSizes, ss \in Flags, se \in Flags }
  \cup { [Plain EXCEPT !.batchSize = Num(1), !.timeThreshold = t] : t \in TimeThresholds }

\* { ...defaultOptions, ...options }
MergeOptions(o) ==
  [ url           |-> o.url,
    organization  |-> o.organization,
    streamName    |-> o.streamName,
    batchSize     |-> IF o.batchSize.set THEN o.batchSize.v ELSE DefaultBatchSize,
    timeThreshold |-> IF o.timeThreshold.set THEN o.timeThreshold.v ELSE DefaultTimeThreshold,
    silentSuccess |-> IF o.silentSuccess.set THEN o.silentSuccess.v ELSE FALSE,
    silentError   |-> IF o.silentError.set THEN o.silentError.v ELSE FALSE ]

NoOptions == MergeOptions([ url |-> Absent, organization |-> Absent, streamName |-> Absent,
                            batchSize |-> AbsentNum, timeThreshold |-> AbsentNum,
                            silentSuccess |-> AbsentFlag, silentError |-> AbsentFlag ])

\* the validation as it would be if it forgot streamName
MissingOptions_NoStream(o) == Falsy(o.url) \/ Falsy(o.organization)

MissingOptions(o) == Falsy(o.url) \/ Falsy(o.organization) \/ Falsy(o.streamName)

MissingError == <<"OpenObserve Pino: Missing required options: url, organization, or streamName">>

----------------------------------------------------------------------------
(* url.parse, for an address of the form scheme://host[/path] *)

UrlParse(u) ==
  LET c == FirstColon(u, 1)
      slashed == c + 2 <= Len(u) /\ u[c + 1] = "/" /\ u[c + 2] = "/"
      h == c + 3
      p == FirstSlash(u, h)
  IN  IF c <= Len(u) /\ slashed
      THEN [ protocol |-> SubSeq(u, 1, c),
             host     |-> SubSeq(u, h, p - 1),
             pathname |-> IF p > Len(u) THEN <<"/">> ELSE SubSeq(u, p, Len(u)) ]
      ELSE [ protocol |-> <<"null">>, host |-> <<"null">>, pathname |-> u ]

\* createApiUrl as it would be if it kept the trailing slash of the path
createApiUrl_KeepsSlash(o) ==
  LET parsedUrl == UrlParse(o.url.v)
      path == parsedUrl.pathname
  IN  parsedUrl.protocol \o <<"/", "/">> \o parsedUrl.host \o path
        \o <<"/", "api", "/">> \o o.organization.v \o <<"/">> \o o.streamName.v
        \o <<"/", "_multi">>

createApiUrl(o) ==
  LET parsedUrl == UrlParse(o.url.v)
      path == IF parsedUrl.pathname # <<>>
              THEN (IF EndsWithSlash(parsedUrl.pathname)
                    THEN SubSeq(parsedUrl.pathname, 1, Len(parsedUrl.pathname) - 1)
                    ELSE parsedUrl.pathname)
              ELSE <<>>
  IN  parsedUrl.protocol \o <<"/", "/">> \o parsedUrl.host \o path
        \o <<"/", "api", "/">> \o o.organization.v \o <<"/">> \o o.streamName.v
        \o <<"/", "_multi">>

----------------------------------------------------------------------------
(* The engine.  A handler's effect is computed on a record s of the        *)
(* instance's state: logs, timer, apiCallInProgress, liveTimers, calls, ev *)

\* the text of the k-th log line written to the stream: lines differ from one
\* another, so a batch body shows which lines it holds and in which order
LogLines(k) ==
  {<<"log", ToString(k)>>} \cup (IF k = 1 THEN {<<"{}", "\n">>} ELSE {})

Responses == { [kind |-> "response", status |-> 200, statusText |-> "OK"],
               [kind |-> "response", status |-> 500, statusText |-> "Internal Server Error"] }
Rejections == { [kind |-> "reject", status |-> 0, statusText |-> "Network error"] }
NoResult == [kind |-> "none", status |-> 0, statusText |-> ""]

\* Response.ok
ResponseOk(r) == r.status >= 200 /\ r.status <= 299

St == [ logs |-> logs, timer |-> timer, apiCallInProgress |-> apiCallInProgress,
        liveTimers |-> liveTimers, calls |-> calls, ev |-> ev ]

\* the record of a handler that has just started; waited tells that a timeout
\* expired on buffered lines during the delivery still in flight, decisions
\* counts the calls of scheduleSendLogs since construction, caught the runs of
\* the catch block in this handler
Begin(op) ==
  [ op |-> op, fetches |-> 0, armed |-> 0, cancelled |-> 0, scheds |-> 0, sends |-> 0,
    callbacks |-> 0, schedBusy |-> FALSE, errors |-> 0, settled |-> 0,
    preLen |-> Len(logs), preBusy |-> apiCallInProgress,
    preLive |-> Cardinality(liveTimers), lines |-> Len(accepted),
    waited |-> ev.waited /\ apiCallInProgress /\ ev.settled = 0,
    decisions |-> ev.decisions, caught |-> 0 ]

LiveIds(s) == { t.id : t \in s.liveTimers }

\* scheduleSendLogs as it would be if the pending timeout were left alone
clearTimeout_Leaves(s, h) == [s EXCEPT !.ev.cancelled = @ + 1]

\* clearTimeout(handle): a handle that fired or was cleared already is ignored
clearTimeout(s, h) ==
  [s EXCEPT !.liveTimers = { t \in s.liveTimers : t.id # h },
            !.ev.cancelled = @ + 1]

\* a handle no pending timeout uses
FreshTimer(s) == CHOOSE h \in 1..(MaxTimers + 1) :
                   /\ h \notin LiveIds(s)
                   /\ \A g \in 1..(MaxTimers + 1) : g \notin LiveIds(s) => h <= g

\* this.timer = setTimeout(() => this.sendLogs(), timeThreshold); the timeout
\* runs from this schedule decision, the at-th since construction
setTimeout(s) ==
  LET h == FreshTimer(s)
  IN  [s EXCEPT !.timer = h,
                !.liveTimers = @ \cup {[id |-> h, delay |-> options.timeThreshold,
                                         at |-> s.ev.decisions]},
                !.ev.armed = @ + 1]

\* fetch(this.apiUrl, { method: 'POST', headers, body })
Fetch(s, batch, body) ==
  [s EXCEPT !.calls = Append(@, [ batch |-> batch, body |-> body, url |-> apiUrl,
                                  method |-> "POST", status |-> "pending",
                                  result |-> NoResult, diags |-> <<>>,
                                  sized |-> s.ev.scheds > 0, lines |-> s.ev.lines ]),
            !.ev.fetches = @ + 1]

\* sendLogs as it would be without the in-flight test of its guard
sendLogs_NoBusyGuard(s) ==
  LET s0 == [s EXCEPT !.ev.sends = @ + 1]
  IN  IF Len(s0.logs) = 0
      THEN s0
      ELSE LET n == Min(options.batchSize, Len(s0.logs))
               batch == SubSeq(s0.logs, 1, n)
               bulkLogs == Join([k \in 1..n |-> batch[k].text])
               s1 == [s0 EXCEPT !.logs = SubSeq(@, n + 1, Len(@)),
                                !.apiCallInProgress = TRUE]
           IN  Fetch(s1, batch, bulkLogs)

\* sendLogs as it would be without the empty-buffer test of its guard
sendLogs_NoEmptyGuard(s) ==
  LET s0 == [s EXCEPT !.ev.sends = @ + 1]
  IN  IF s0.apiCallInProgress
      THEN s0
      ELSE LET n == Min(options.batchSize, Len(s0.logs))
               batch == SubSeq(s0.logs, 1, n)
               bulkLogs == Join([k \in 1..n |-> batch[k].text])
               s1 == [s0 EXCEPT !.logs = SubSeq(@, n + 1, Len(@)),
                                !.apiCallInProgress = TRUE]
           IN  Fetch(s1, batch, bulkLogs)

\* sendLogs as it would be with slice (a copy) in place of splice (a removal)
sendLogs_Slice(s) ==
  LET s0 == [s EXCEPT !.ev.sends = @ + 1]
  IN  IF Len(s0.logs) = 0 \/ s0.apiCallInProgress
      THEN s0
      ELSE LET n == Min(options.batchSize, Len(s0.logs))
               batch == SubSeq(s0.logs, 1, n)
               bulkLogs == Join([k \in 1..n |-> batch[k].text])
               s1 == [s0 EXCEPT !.apiCallInProgress = TRUE]
           IN  Fetch(s1, batch, bulkLogs)

\* sendLogs as it would be if it removed one line at a time
sendLogs_OneLine(s) ==
  LET s0 == [s EXCEPT !.ev.sends = @ + 1]
  IN  IF Len(s0.logs) = 0 \/ s0.apiCallInProgress
      THEN s0
      ELSE LET n == Min(1, Len(s0.logs))
               batch == SubSeq(s0.logs, 1, n)
               bulkLogs == Join([k \in 1..n |-> batch[k].text])
               s1 == [s0 EXCEPT !.logs = SubSeq(@, n + 1, Len(@)),
                                !.apiCallInProgress = TRUE]
           IN  Fetch(s1, batch, bulkLogs)

\* sendLogs, up to its first await
sendLogs(s) ==
  LET s0 == [s EXCEPT !.ev.sends = @ + 1]
  IN  IF Len(s0.logs) = 0 \/ s0.apiCallInProgress
      THEN s0
      ELSE LET n == Min(options.batchSize, Len(s0.logs))
               batch == SubSeq(s0.logs, 1, n)
               bulkLogs == Join([k \in 1..n |-> batch[k].text])
               s1 == [s0 EXCEPT !.logs = SubSeq(@, n + 1, Len(@)),
                                !.apiCallInProgress = TRUE]
           IN  Fetch(s1, batch, bulkLogs)

\* scheduleSendLogs as it would be with > in place of >=
scheduleSendLogs_Greater(s) ==
  LET s0 == [s EXCEPT !.ev.scheds = @ + 1, !.ev.schedBusy = s.apiCallInProgress,
                      !.ev.decisions = @ + 1]
      s1 == IF s0.timer # 0 THEN clearTimeout(s0, s0.timer) ELSE s0
  IN  IF Len(s1.logs) > options.batchSize /\ ~s1.apiCallInProgress
      THEN sendLogs(s1)
      ELSE setTimeout(s1)

\* scheduleSendLogs as it would be if it armed the timer for waiting lines only
scheduleSendLogs_NoIdleTimer(s) ==
  LET s0 == [s EXCEPT !.ev.scheds = @ + 1, !.ev.schedBusy = s.apiCallInProgress,
                      !.ev.decisions = @ + 1]
      s1 == IF s0.timer # 0 THEN clearTimeout(s0, s0.timer) ELSE s0
  IN  IF Len(s1.logs) >= options.batchSize /\ ~s1.apiCallInProgress
      THEN sendLogs(s1)
      ELSE IF Len(s1.logs) > 0 THEN setTimeout(s1) ELSE s1

\* scheduleSendLogs as it would be without the in-flight test
scheduleSendLogs_NoBusyTest(s) ==
  LET s0 == [s EXCEPT !.ev.scheds = @ + 1, !.ev.schedBusy = s.apiCallInProgress,
                      !.ev.decisions = @ + 1]
      s1 == IF s0.timer # 0 THEN clearTimeout(s0, s0.timer) ELSE s0
  IN  IF Len(s1.logs) >= options.batchSize
      THEN sendLogs(s1)
      ELSE setTimeout(s1)

scheduleSendLogs(s) ==
  LET s0 == [s EXCEPT !.ev.scheds = @ + 1, !.ev.schedBusy = s.apiCallInProgress,
                      !.ev.decisions = @ + 1]
      s1 == IF s0.timer # 0 THEN clearTimeout(s0, s0.timer) ELSE s0
  IN  IF Len(s1.logs) >= options.batchSize /\ ~s1.apiCallInProgress
      THEN sendLogs(s1)
      ELSE setTimeout(s1)

\* _transform as it would be with unshift in place of push
transform_Unshift(s, log) ==
  LET s1 == scheduleSendLogs([s EXCEPT !.logs = <<log>> \o @])
  IN  [s1 EXCEPT !.ev.callbacks = @ + 1]

\* _transform(log, encoding, callback)
transform(s, log) ==
  LET s1 == scheduleSendLogs([s EXCEPT !.logs = Append(@, log)])
  IN  [s1 EXCEPT !.ev.callbacks = @ + 1]

\* the listener as it would be if it called scheduleSendLogs
beforeExit_Schedules(s) ==
  IF Len(s.logs) > 0 /\ ~s.apiCallInProgress THEN scheduleSendLogs(s) ELSE s

\* the 'beforeExit' listener
beforeExit(s) ==
  IF Len(s.logs) > 0 /\ ~s.apiCallInProgress THEN sendLogs(s) ELSE s

\* console.log / console.error for call i
Emit(s, i, d) == [s EXCEPT !.calls[i].diags = Append(@, d)]

SuccessDiag(json) ==
  [ch |-> "log", msg |-> "successful: ", status |-> 0, detail |-> json]
StatusDiag(r) ==
  [ch |-> "error", msg |-> "Failed to send logs:", status |-> r.status, detail |-> r.statusText]
ErrorDiag(e) ==
  [ch |-> "error", msg |-> "Failed to send logs:", status |-> 0, detail |-> e]

\* the finally block as it would be without the reset of the flag
finally_KeepsFlag(s) ==
  scheduleSendLogs(s)

\* the finally block as it would be without the call of scheduleSendLogs
finally_NoSchedule(s) ==
  [s EXCEPT !.apiCallInProgress = FALSE]

\* the finally block of sendLogs
finally(s) ==
  scheduleSendLogs([s EXCEPT !.apiCallInProgress = FALSE])

\* the catch block as it would be if it put the failed batch back for a retry
catch_Requeues(s, i, e) ==
  LET s0 == [s EXCEPT !.logs = s.calls[i].batch \o @, !.ev.caught = @ + 1]
  IN  IF ~options.silentError THEN Emit(s0, i, ErrorDiag(e)) ELSE s0

\* the catch block as it would be if it swallowed the error
catch_Mute(s, i, e) == [s EXCEPT !.ev.caught = @ + 1]

\* the catch block of sendLogs
catch(s, i, e) ==
  LET s0 == [s EXCEPT !.ev.caught = @ + 1]
  IN  IF ~options.silentError THEN Emit(s0, i, ErrorDiag(e)) ELSE s0

\* the promise sendLogs returned for call i settles: the call is over
Done(s, i) == [s EXCEPT !.calls[i].status = "done", !.ev.settled = @ + 1]

\* sendLogs resumed after `await fetch(...)` with settlement r
afterFetch(s, i, r) ==
  LET s0 == [s EXCEPT !.calls[i].result = r]
  IN  IF r.kind = "reject" THEN Done(finally(catch(s0, i, r.statusText)), i)
      ELSE IF ResponseOk(r)
           THEN IF ~options.silentSuccess
                THEN [s0 EXCEPT !.calls[i].status = "json"]   \* await response.json()
                ELSE Done(finally(s0), i)
           ELSE Done(finally(IF ~options.silentError
                             THEN Emit(s0, i, StatusDiag(r)) ELSE s0), i)

\* sendLogs resumed after `await response.json()`: the body parsed to json,
\* or json() rejected with a SyntaxError
afterJson(s, i, parsed, json) ==
  IF parsed THEN Done(finally(Emit(s, i, SuccessDiag(json))), i)
  ELSE Done(finally(catch(s, i, "SyntaxError")), i)

----------------------------------------------------------------------------
(* The constructor *)

\* the instance as `new OpenobserveTransport(o)` leaves it
constructor(o) ==
  LET merged == MergeOptions(o)
      blank == [ threw |-> FALSE, thrown |-> <<>>, created |-> {"options"},
                 options |-> merged, logs |-> <<>>, timer |-> 0,
                 apiCallInProgress |-> FALSE, hooks |-> 0, apiUrl |-> <<>> ]
  IN  IF MissingOptions(merged)
      THEN [blank EXCEPT !.threw = TRUE, !.thrown = MissingError]
      ELSE [blank EXCEPT !.created = @ \cup {"logs", "timer", "apiCallInProgress", "apiUrl"},
                         !.hooks = 1,
                         !.apiUrl = createApiUrl(merged)]

----------------------------------------------------------------------------
(* Actions *)

Init ==
  /\ phase = "new"
  /\ given \in GivenOptions
  /\ created = {}
  /\ options = NoOptions
  /\ logs = <<>>
  /\ timer = 0
  /\ apiCallInProgress = FALSE
  /\ apiUrl = <<>>
  /\ hooks = 0
  /\ liveTimers = {}
  /\ calls = <<>>
  /\ accepted = <<>>
  /\ thrown = <<>>
  /\ ev = [ op |-> "none", fetches |-> 0, armed |-> 0, cancelled |-> 0, scheds |-> 0,
            sends |-> 0, callbacks |-> 0, schedBusy |-> FALSE, errors |-> 0,
            settled |-> 0, preLen |-> 0, preBusy |-> FALSE, preLive |-> 0, lines |-> 0,
            waited |-> FALSE, decisions |-> 0, caught |-> 0 ]

\* the handler's result s becomes the instance's state
Set(s) ==
  /\ logs' = s.logs
  /\ timer' = s.timer
  /\ apiCallInProgress' = s.apiCallInProgress
  /\ liveTimers' = s.liveTimers
  /\ calls' = s.calls
  /\ ev' = s.ev
  /\ Cardinality(s.liveTimers) <= MaxTimers

Fixed == UNCHANGED <<phase, given, created, options, apiUrl, hooks, thrown>>

\* new OpenobserveTransport(given)
Construct ==
  /\ phase = "new"
  /\ LET c == constructor(given)
     IN  /\ phase' = IF c.threw THEN "failed" ELSE "ready"
         /\ created' = c.created
         /\ options' = c.options
         /\ logs' = c.logs
         /\ timer' = c.timer
         /\ apiCallInProgress' = c.apiCallInProgress
         /\ hooks' = c.hooks
         /\ apiUrl' = c.apiUrl
         /\ thrown' = c.thrown
  /\ ev' = [Begin("constructor") EXCEPT !.errors = IF phase' = "failed" THEN 1 ELSE 0]
  /\ UNCHANGED <<given, liveTimers, calls, accepted>>

\* the stream hands one log to _transform
Accept ==
  /\ phase = "ready"
  /\ Len(accepted) < MaxAccepts
  /\ \E e \in LogLines(Len(accepted) + 1) :
       LET log == [id |-> Len(accepted) + 1, text |-> e]
       IN  /\ Set(transform([St EXCEPT !.ev = [Begin("transform") EXCEPT !.lines = @ + 1]],
                             log))
           /\ accepted' = Append(accepted, log)
  /\ Fixed

\* a pending timeout expires and its callback runs
TimerFires ==
  /\ phase = "ready"
  /\ \E t \in liveTimers :
       Set(sendLogs([St EXCEPT
             !.ev = [Begin("timer") EXCEPT
                       !.waited = @ \/ (apiCallInProgress /\ logs # <<>>)],
             !.liveTimers = @ \ {t}]))
  /\ UNCHANGED accepted
  /\ Fixed

\* process emits 'beforeExit'
BeforeExit ==
  /\ hooks > 0
  /\ Set(beforeExit([St EXCEPT !.ev = Begin("beforeExit")]))
  /\ UNCHANGED accepted
  /\ Fixed

\* sendLogs() invoked on the instance directly
SendLogsCall ==
  /\ phase = "ready"
  /\ Set(sendLogs([St EXCEPT !.ev = Begin("sendLogs")]))
  /\ UNCHANGED accepted
  /\ Fixed

\* the promise of fetch() settles: a response arrives or the transport fails
FetchSettles ==
  /\ \E i \in 1..Len(calls) :
       /\ calls[i].status = "pending"
       /\ \E r \in Responses \cup Rejections :
            Set(afterFetch([St EXCEPT !.ev = Begin("afterFetch")], i, r))
  /\ UNCHANGED accepted
  /\ Fixed

\* the promise of response.json() settles: the body parses or it does not
JsonSettles ==
  /\ \E i \in 1..Len(calls) :
       /\ calls[i].status = "json"
       /\ \E parsed \in BOOLEAN :
            Set(afterJson([St EXCEPT !.ev = Begin("afterJson")], i, parsed, "ack"))
  /\ UNCHANGED accepted
  /\ Fixed

Next ==
  \/ Construct
  \/ Accept
  \/ TimerFires
  \/ BeforeExit
  \/ SendLogsCall
  \/ FetchSettles
  \/ JsonSettles

Spec == Init /\ [][Next]_vars

----------------------------------------------------------------------------
(* Vocabulary of the properties *)

Ready == phase = "ready"

\* the delivery calls issued and not yet over
Outstanding == { i \in 1..Len(calls) : calls[i].status # "done" }

LastCall == calls[Len(calls)]

Ids(ss) == { ss[k].id : k \in 1..Len(ss) }
Texts(ss) == [k \in 1..Len(ss) |-> ss[k].text]

RECURSIVE Batches(_)
\* the batches of the first n calls, one after the other
Batches(n) == IF n = 0 THEN <<>> ELSE Batches(n - 1) \o calls[n].batch

RECURSIVE Bodies(_)
\* the bodies of the first n calls, one after the other
Bodies(n) == IF n = 0 THEN <<>> ELSE Bodies(n - 1) \o calls[n].body

\* how many diagnostics of channel ch call i has emitted
Emitted(i, ch) ==
  Cardinality({ k \in 1..Len(calls[i].diags) : calls[i].diags[k].ch = ch })

\* the handler that ran last was a completion of sendLogs that reached its end
Completion == ev.op \in {"afterFetch", "afterJson"} /\ ev.settled = 1

----------------------------------------------------------------------------
(* C1  Single-flight: whatever the interleaving of _transform, timer       *)
(* firings, 'beforeExit' and completions, at most one fetch is issued and  *)
(* not yet over.                                                            *)

C1_SingleFlight == Cardinality(Outstanding) <= 1

\* a log arrives during a delivery and fills the buffer to the batch size
C1_Witness ==
  /\ ev.op = "transform" /\ ev.preBusy
  /\ Len(logs) >= options.batchSize
  /\ Cardinality(Outstanding) = 1

(* C2  No duplication, no omission, FIFO: the bodies of the calls issued   *)
(* so far, in order, followed by the buffer, are exactly the accepted      *)
(* lines in arrival order, with nothing added between them.                *)

C2_Fifo ==
  /\ Bodies(Len(calls)) \o Join(Texts(logs)) = Join(Texts(accepted))
  /\ Batches(Len(calls)) \o logs = accepted
  /\ \A i \in 1..Len(calls) : calls[i].body = Join(Texts(calls[i].batch))

\* a call of two lines was issued and a third line is buffered behind it
C2_Witness ==
  /\ Len(calls) = 1 /\ Len(calls[1].batch) = 2
  /\ logs # <<>>

(* C3  Size trigger: a _transform that brings the buffer to batchSize or   *)
(* beyond while no delivery is in flight issues the fetch within that very *)
(* step, and arms no timer.                                                *)

C3_SizeTrigger ==
  (ev.op = "transform" /\ ~ev.preBusy /\ ev.preLen + 1 >= options.batchSize)
    => /\ ev.fetches = 1
       /\ ev.armed = 0
       /\ liveTimers = {}
       /\ apiCallInProgress
       /\ LastCall.status = "pending"
       /\ Len(LastCall.batch) = options.batchSize

\* the second line of a batch of two arrives: the pending deadline is
\* cancelled and the batch goes out
C3_Witness ==
  /\ ev.op = "transform" /\ ~ev.preBusy
  /\ options.batchSize = 2 /\ ev.preLen + 1 = 2
  /\ ev.cancelled = 1 /\ ev.fetches = 1

(* C4  Time trigger: with 0 < k < batchSize lines buffered and no delivery *)
(* in flight, exactly one deadline is pending, and its firing issues       *)
(* exactly one fetch, of all k lines, and leaves the buffer empty.         *)

C4_TimeTrigger ==
  /\ (Ready /\ ~apiCallInProgress /\ 0 < Len(logs) /\ Len(logs) < options.batchSize)
       => Cardinality(liveTimers) = 1
  /\ (ev.op = "timer" /\ ~ev.preBusy /\ 0 < ev.preLen /\ ev.preLen < options.batchSize)
       => /\ ev.fetches = 1
          /\ Len(LastCall.batch) = ev.preLen
          /\ LastCall.body = Join(Texts(LastCall.batch))
          /\ logs = <<>>

\* the deadline fires on two buffered lines under a batch size above two
C4_Witness ==
  /\ ev.op = "timer" /\ ~ev.preBusy
  /\ ev.preLen = 2 /\ options.batchSize > 2
  /\ ev.fetches = 1 /\ logs = <<>>

(* C5  Flush guard: sendLogs invoked on an empty buffer, or during a       *)
(* delivery, issues no fetch and leaves the buffer, the flag and the timer *)
(* as they were.                                                           *)

C5_FlushGuard ==
  [][ (ev'.op \in {"sendLogs", "timer"} /\ (logs = <<>> \/ apiCallInProgress))
        => /\ ev'.fetches = 0
           /\ calls' = calls
           /\ logs' = logs
           /\ apiCallInProgress' = apiCallInProgress
           /\ timer' = timer
           /\ (ev'.op = "sendLogs" => liveTimers' = liveTimers) ]_vars

\* sendLogs is invoked during a delivery, on a buffer that holds lines
C5_Witness ==
  /\ ev.op = "sendLogs" /\ ev.sends = 1
  /\ ev.preBusy /\ ev.preLen > 0
  /\ ev.fetches = 0

(* C6  Every delivery that comes to its end, whatever the outcome, resets  *)
(* the flag and then runs scheduleSendLogs exactly once; the flag is never *)
(* left set without a delivery in flight.                                  *)

C6_CompletionClears ==
  /\ Completion => /\ ev.scheds = 1
                   /\ ~ev.schedBusy
                   /\ apiCallInProgress <=> (ev.fetches = 1)
  /\ apiCallInProgress => Outstanding # {}

\* a delivery ends in a transport failure and the next batch leaves at once
C6_Witness ==
  /\ Completion /\ ev.fetches = 1
  /\ calls[Len(calls) - 1].result.kind = "reject"
  /\ calls[Len(calls) - 1].status = "done"

(* C7  At-most-once: no line of a batch handed to fetch is in the buffer   *)
(* again or in another call, whether that delivery failed or not.          *)

C7_AtMostOnce ==
  \A i \in 1..Len(calls) :
    /\ Ids(calls[i].batch) \cap Ids(logs) = {}
    /\ \A j \in 1..Len(calls) : j # i => Ids(calls[i].batch) \cap Ids(calls[j].batch) = {}

\* a delivery failed at the transport, another at the HTTP level, and a
\* third call has been issued since
C7_Witness ==
  /\ Len(calls) = 3
  /\ calls[1].status = "done" /\ calls[1].result.kind = "reject"
  /\ calls[2].status = "done" /\ calls[2].result.status = 500

(* C8  Shutdown hook: the 'beforeExit' listener issues exactly one fetch   *)
(* when the buffer holds lines and no delivery is in flight; otherwise it  *)
(* issues none and changes nothing.                                        *)

C8_ShutdownHook ==
  [][ ev'.op = "beforeExit"
        => IF logs # <<>> /\ ~apiCallInProgress
           THEN /\ ev'.fetches = 1
                /\ Len(calls') = Len(calls) + 1
                /\ apiCallInProgress'
           ELSE /\ ev'.fetches = 0
                /\ UNCHANGED <<logs, timer, apiCallInProgress, liveTimers, calls>> ]_vars

\* the listener runs on a buffer of one line, below the batch size
C8_Witness ==
  /\ ev.op = "beforeExit"
  /\ ev.preLen = 1 /\ ~ev.preBusy /\ options.batchSize > 1
  /\ ev.fetches = 1

(* C9  The constructor throws 'Missing required options' when url,         *)
(* organization or streamName is missing or empty, and then has created    *)
(* neither buffer, timer nor flag and registered no listener; with all     *)
(* three it succeeds with an empty buffer, no timer and the flag false.    *)

C9_Construction ==
  /\ phase = "failed"
       => /\ MissingOptions(given)
          /\ thrown = MissingError
          /\ created \cap {"logs", "timer", "apiCallInProgress"} = {}
          /\ hooks = 0
          /\ liveTimers = {}
  /\ (phase # "new" /\ (Falsy(given.url) \/ Falsy(given.organization) \/ Falsy(given.streamName)))
       => phase = "failed"
  /\ (ev.op = "constructor" /\ phase = "ready")
       => /\ {"logs", "timer", "apiCallInProgress"} \subseteq created
          /\ logs = <<>> /\ timer = 0 /\ ~apiCallInProgress
          /\ liveTimers = {}
          /\ hooks = 1
          /\ thrown = <<>>

\* url and organization are given and streamName is the empty string
C9_Witness ==
  /\ phase = "failed"
  /\ ~Falsy(given.url) /\ ~Falsy(given.organization)
  /\ given.streamName = Text(<<>>)

(* C10  A delivery that ends with an OK-class response emits the success   *)
(* diagnostic exactly once when silentSuccess is false, never when it is   *)
(* true, and emits no error diagnostic.                                    *)

C10_SuccessDiagnostic ==
  \A i \in 1..Len(calls) :
    (calls[i].status = "done" /\ calls[i].result.kind = "response"
       /\ ResponseOk(calls[i].result))
      => /\ Emitted(i, "log") = (IF options.silentSuccess THEN 0 ELSE 1)
         /\ Emitted(i, "error") = 0

(* C11  A delivery that ends with a non-OK status or a transport rejection *)
(* emits the error diagnostic exactly once, with the status code and text  *)
(* or the underlying error, when silentError is false, never when it is    *)
(* true, and emits no success diagnostic.                                  *)

Failed(i) ==
  /\ calls[i].status = "done"
  /\ \/ calls[i].result.kind = "reject"
     \/ calls[i].result.kind = "response" /\ ~ResponseOk(calls[i].result)

C11_ErrorDiagnostic ==
  \A i \in 1..Len(calls) :
    Failed(i)
      => /\ Emitted(i, "log") = 0
         /\ Emitted(i, "error") = (IF options.silentError THEN 0 ELSE 1)
         /\ ~options.silentError
              => /\ calls[i].diags[1].msg = "Failed to send logs:"
                 /\ calls[i].diags[1].status = calls[i].result.status
                 /\ calls[i].diags[1].detail = calls[i].result.statusText

\* one delivery was rejected by the transport and the next got a 500, with
\* the error diagnostics switched on
C11_Witness ==
  /\ Len(calls) >= 2 /\ ~options.silentError
  /\ Failed(1) /\ calls[1].result.kind = "reject"
  /\ Failed(2) /\ calls[2].result.status = 500
  /\ Emitted(1, "error") = 1 /\ Emitted(2, "error") = 1

(* C12  Call count: N lines accepted under batch size B, with no flush by  *)
(* the timer (nor by the listener or a direct call) before the last line   *)
(* arrived, make ceil(N/B) calls once all of them are sent; on the way     *)
(* there, ceil(S/B) calls for the S lines sent so far.                     *)

Ceil(n, b) == (n + b - 1) \div b

\* call i was issued by the schedule decision of a _transform or of a completion,
\* not by the timer callback, the listener or a direct call
SizeTriggered(i) == calls[i].sized

\* every other call was issued after the last line had arrived
NoInterleavedFlush ==
  \A i \in 1..Len(calls) : ~SizeTriggered(i) => calls[i].lines = Len(accepted)

C12_CallCount ==
  (Ready /\ NoInterleavedFlush)
    => /\ Len(calls) = Ceil(Len(accepted) - Len(logs), options.batchSize)
       /\ (logs = <<>> /\ Outstanding = {})
            => Len(calls) = Ceil(Len(accepted), options.batchSize)

\* three lines under a batch size of two: a full batch, then the remainder
\* at the deadline, and both deliveries are over
C12_Witness ==
  /\ Ready /\ NoInterleavedFlush
  /\ Len(accepted) = 3 /\ options.batchSize = 2
  /\ logs = <<>> /\ Outstanding = {}
  /\ Len(calls) = 2 /\ ~SizeTriggered(2) /\ ev.op = "afterJson"

(* C13  _transform, in any state, puts the line at the tail of the buffer, *)
(* runs scheduleSendLogs exactly once and calls the callback exactly once, *)
(* within the same step and with no error, also during a delivery and      *)
(* after a failed one.                                                     *)

C13_Accept ==
  ev.op = "transform"
    => /\ ev.scheds = 1
       /\ ev.callbacks = 1
       /\ ev.errors = 0
       /\ LET buffered == IF ev.fetches = 1 THEN LastCall.batch \o logs ELSE logs
          IN  /\ Len(buffered) = ev.preLen + 1
              /\ buffered[Len(buffered)] = accepted[Len(accepted)]

\* a line arrives during a delivery, after an earlier delivery failed
C13_Witness ==
  /\ ev.op = "transform" /\ ev.preBusy /\ Len(logs) = 1
  /\ \E i \in 1..Len(calls) : Failed(i)
  /\ ev.callbacks = 1

(* C14  With timeThreshold omitted, lines buffered below the batch size    *)
(* are sent after the default interval the README documents, 1000 ms:      *)
(* every deadline is armed with that delay.                                *)

ReadmeTimeThreshold == 1000

C14_ReadmeDefault ==
  (Ready /\ ~given.timeThreshold.set)
    => \A t \in liveTimers : t.delay = ReadmeTimeThreshold

(* C15  The endpoint is computed once, by the constructor, as              *)
(* scheme://host + the base path without its trailing slash +              *)
(* /api/organization/streamName/_multi, whatever the base address (with    *)
(* or without a path or a trailing slash), and every fetch of the instance *)
(* goes to that endpoint.                                                  *)

StripSlash(p) == IF p # <<>> /\ p[Len(p)] = "/" THEN SubSeq(p, 1, Len(p) - 1) ELSE p

Endpoint(c, organization, streamName) ==
  <<c.scheme, ":", "/", "/">> \o c.host \o StripSlash(c.path)
    \o <<"/", "api", "/">> \o organization \o <<"/">> \o streamName \o <<"/", "_multi">>

C15_Endpoint ==
  Ready
    => \E c \in UrlCases :
         /\ given.url = Text(Compose(c))
         /\ "apiUrl" \in created
         /\ apiUrl = Endpoint(c, given.organization.v, given.streamName.v)
         /\ \A i \in 1..Len(calls) : calls[i].url = apiUrl

\* two fetches of an instance whose base address has a port and a path of
\* two segments with a trailing slash
C15_Witness ==
  /\ Ready /\ Len(calls) >= 2
  /\ given.url = Text(<<"https", ":", "/", "/", "host", ":", "5080", "/", "a", "/", "b", "/">>)
  /\ calls[2].url = <<"https", ":", "/", "/", "host", ":", "5080", "/", "a", "/", "b",
                      "/", "api", "/", "x", "/", "x", "/", "_multi">>

(* C16  At most one deadline timer is pending in every reachable state:    *)
(* every schedule decision cancels the timer armed before it, and nothing  *)
(* but a schedule decision arms one.                                       *)

C16_OneTimer ==
  /\ Cardinality(liveTimers) <= 1
  /\ \A t \in liveTimers : t.id = timer
  /\ ev.armed <= ev.scheds /\ ev.scheds <= 1
  /\ (ev.scheds = 1 /\ ev.preLive = 1) => ev.cancelled = 1
  /\ ev.op \in {"constructor", "timer", "beforeExit", "sendLogs"} => ev.armed = 0

\* a line arrives while a deadline is pending: that deadline is cancelled
\* and a new one armed
C16_Witness ==
  /\ ev.op = "transform" /\ ev.preLive = 1
  /\ ev.cancelled = 1 /\ ev.armed = 1
  /\ Cardinality(liveTimers) = 1

(* C17  A _transform during a delivery never issues a fetch, even when it  *)
(* brings the buffer to batchSize or beyond: it appends the line and       *)
(* replaces the deadline timer by a newly armed one, nothing else.         *)

C17_AcceptInFlight ==
  [][ (ev'.op = "transform" /\ apiCallInProgress)
        => /\ ev'.fetches = 0
           /\ calls' = calls
           /\ apiCallInProgress'
           /\ logs' = Append(logs, accepted'[Len(accepted')])
           /\ ev'.armed = 1
           /\ Cardinality(liveTimers') = 1
           /\ \A t \in liveTimers' : t.id = timer' ]_vars

\* during a delivery the second of two waiting lines arrives, under a batch
\* size of two
C17_Witness ==
  /\ ev.op = "transform" /\ ev.preBusy
  /\ options.batchSize = 2 /\ Len(logs) = 2
  /\ ev.fetches = 0 /\ ev.armed = 1

(* C18  When a delivery ends with batchSize lines or more in the buffer,   *)
(* the fetch of the next batchSize oldest lines is issued in the same      *)
(* step, with no timer involved; with fewer lines the completion issues    *)
(* no fetch.                                                               *)

C18_CompletionFlush ==
  [][ (ev'.op \in {"afterFetch", "afterJson"} /\ ev'.settled = 1)
        => IF Len(logs) >= options.batchSize
           THEN /\ ev'.fetches = 1
                /\ Len(calls') = Len(calls) + 1
                /\ calls'[Len(calls')].batch = SubSeq(logs, 1, options.batchSize)
                /\ calls'[Len(calls')].status = "pending"
                /\ logs' = SubSeq(logs, options.batchSize + 1, Len(logs))
                /\ ev'.armed = 0
                /\ liveTimers' = {}
           ELSE /\ ev'.fetches = 0
                /\ Len(calls') = Len(calls)
                /\ logs' = logs ]_vars

\* a delivery ends with two lines waiting under a batch size of two
C18_Witness ==
  /\ Completion
  /\ options.batchSize = 2 /\ ev.preLen = 2
  /\ ev.fetches = 1 /\ Len(LastCall.batch) = 2 /\ logs = <<>>

(* C19  As claimed: a completion re-arms the deadline timer only if lines  *)
(* remain; after a completion that finds the buffer empty no timer is left *)
(* armed.                                                                  *)

C19_NoTimerOnEmpty ==
  (Completion /\ ev.preLen = 0) => (ev.armed = 0 /\ liveTimers = {})

(* C19, amended: a completion re-arms the deadline timer whenever fewer    *)
(* than batchSize lines are buffered, none included: after a completion    *)
(* that finds the buffer empty exactly one timer is left armed, and its    *)
(* firing on the empty buffer issues no fetch.                             *)

C19_TimerRearmed ==
  /\ Completion
       => /\ ev.armed = 1 <=> ev.preLen < options.batchSize
          /\ ev.preLen < options.batchSize
               => (Cardinality(liveTimers) = 1 /\ \A t \in liveTimers : t.id = timer)
  /\ (ev.op = "timer" /\ ev.preLen = 0) => (ev.fetches = 0 /\ liveTimers = {})

\* a delivery ends on an empty buffer and leaves a deadline armed
C19_Witness ==
  /\ Completion /\ ev.preLen = 0 /\ logs = <<>>
  /\ ev.armed = 1 /\ Cardinality(liveTimers) = 1

\* C20 (as stated): a timeout that expires during a delivery starts no call and
\* leaves the buffer alone, and the completion of that delivery sends the lines
\* the timeout found waiting.
C20_SentAtCompletion ==
  /\ (ev.op = "timer" /\ ev.preBusy) => (ev.fetches = 0 /\ Len(logs) = ev.preLen)
  /\ (Completion /\ ev.waited) => ev.fetches = 1

\* C20 (amended): a timeout that expires during a delivery starts no call and
\* leaves the buffer, the flag and the call history alone; when that delivery
\* completes, the schedule decision sends the oldest batchSize waiting lines at
\* once only if at least batchSize are buffered, and otherwise starts no call,
\* keeps the lines and arms one new timeout; an expiry of a timeout while idle
\* on a non-empty buffer starts the call that carries them.
C20_DeferredToCompletion ==
  [][ /\ (ev'.op = "timer" /\ apiCallInProgress)
           => /\ ev'.fetches = 0 /\ ev'.armed = 0
              /\ logs' = logs /\ calls' = calls /\ apiCallInProgress'
              /\ ev'.waited = (ev.waited \/ logs # <<>>)
      /\ (ev'.op \in {"afterFetch", "afterJson"} /\ ev'.settled = 1 /\ ev'.waited)
           => /\ logs # <<>>
              /\ IF Len(logs) >= options.batchSize
                   THEN /\ ev'.fetches = 1
                        /\ calls'[Len(calls')].batch = SubSeq(logs, 1, options.batchSize)
                        /\ logs' = SubSeq(logs, options.batchSize + 1, Len(logs))
                   ELSE /\ ev'.fetches = 0 /\ logs' = logs /\ ~apiCallInProgress'
                        /\ ev'.armed = 1 /\ Cardinality(liveTimers') = 1
      /\ (ev'.op = "timer" /\ ~apiCallInProgress /\ logs # <<>>)
           => /\ ev'.fetches = 1
              /\ calls'[Len(calls')].batch = SubSeq(logs, 1, Min(options.batchSize, Len(logs)))
    ]_vars

\* a delivery during which a timeout expired on one waiting line completes with
\* fewer than batchSize lines buffered: nothing is sent, a timeout is armed
C20_Witness ==
  /\ Completion /\ ev.waited
  /\ ev.preLen > 0 /\ ev.preLen < options.batchSize
  /\ ev.fetches = 0 /\ ev.armed = 1 /\ logs # <<>>

----------------------------------------------------------------------------
(* C21: what a completion leaves behind does not depend on its outcome *)

\* the instance as later handlers see it: everything but the diagnostics
Shape(s) ==
  [ logs |-> s.logs, apiCallInProgress |-> s.apiCallInProgress, timer |-> s.timer,
    liveTimers |-> s.liveTimers,
    sent |-> [k \in 1..Len(s.calls) |-> [batch |-> s.calls[k].batch, body |-> s.calls[k].body]],
    over |-> { k \in 1..Len(s.calls) : s.calls[k].status = "done" } ]

\* the rest of sendLogs for call i when fetch settles with r and, if the body
\* comes to be parsed, the parse succeeds or not
Complete(s, i, r, parsed) ==
  IF s.calls[i].status = "json"
  THEN afterJson([s EXCEPT !.ev = Begin("afterJson")], i, parsed, "ack")
  ELSE LET a == afterFetch([s EXCEPT !.ev = Begin("afterFetch")], i, r)
       IN  IF a.calls[i].status = "json"
           THEN afterJson([a EXCEPT !.ev = Begin("afterJson")], i, parsed, "ack")
           ELSE a

\* C21: whenever a delivery completes, the buffer, the flag, the timer and
\* the batches sent are what every other outcome of that delivery (a 2xx
\* response with a body that parses or not, a non-2xx response, a rejected
\* fetch) would have left from the same state; only the diagnostics differ.
C21_OutcomeIndependence ==
  [][ \A i \in Outstanding :
        calls'[i].status = "done"
          => \A r \in Responses \cup Rejections : \A parsed \in BOOLEAN :
               Shape(Complete(St, i, r, parsed)) = Shape(St)'
    ]_vars

\* a failed delivery completes with a full batch waiting and the next batch
\* is sent as after a success
C21_Witness ==
  /\ Completion /\ ev.fetches = 1
  /\ Failed(Len(calls) - 1)
  /\ Len(LastCall.batch) = options.batchSize

----------------------------------------------------------------------------
\* C22: the deadline runs from the last schedule decision. A schedule
\* decision (of _transform or of a completion) that sends nothing cancels the
\* pending timeout and leaves exactly one, armed by that very decision with
\* the full timeThreshold; the timeout whose expiry flushes an under-sized
\* batch was armed by the most recent schedule decision, after the arrival
\* of every line of that batch.
C22_DeadlineFromLastDecision ==
  [][ /\ ev'.scheds = 1 => ev'.decisions = ev.decisions + 1
      /\ ev'.scheds = 0 => (ev'.decisions = ev.decisions /\ liveTimers' \subseteq liveTimers)
      /\ (ev'.scheds = 1 /\ ev'.fetches = 0)
           => /\ liveTimers' = {[id |-> timer', delay |-> options.timeThreshold,
                                  at |-> ev'.decisions]}
              /\ liveTimers # {} => ev'.cancelled = 1
      /\ (ev'.op = "timer" /\ ev'.fetches = 1)
           => \A t \in liveTimers \ liveTimers' :
                /\ t.at = ev.decisions /\ t.delay = options.timeThreshold
                /\ t.at >= Len(accepted)
                /\ Len(calls'[Len(calls')].batch) < options.batchSize
    ]_vars

\* two lines arrived one after the other, the second cancelled the deadline of
\* the first, and the expiry of its own deadline flushed both
C22_Witness ==
  /\ ev.op = "timer" /\ ev.fetches = 1
  /\ Len(LastCall.batch) = 2 /\ Len(LastCall.batch) < options.batchSize
  /\ ev.decisions >= 2 /\ logs = <<>>

----------------------------------------------------------------------------
\* C23: no log is left behind at shutdown. When the 'beforeExit' listener runs
\* with no delivery in flight, it starts at most one call, that call carries
\* every line of the buffer in order, and the buffer is empty when the
\* listener returns.
C23_ShutdownFlush ==
  [][ (ev'.op = "beforeExit" /\ ~apiCallInProgress)
        => /\ logs' = <<>>
           /\ ev'.fetches = (IF logs = <<>> THEN 0 ELSE 1)
           /\ logs # <<>>
                => /\ calls' = Append(calls, calls'[Len(calls')])
                   /\ calls'[Len(calls')].batch = logs
                   /\ calls'[Len(calls')].body = Join(Texts(logs))
                   /\ apiCallInProgress'
    ]_vars

\* the process is about to exit with two lines waiting for their deadline:
\* one call carries both
C23_Witness ==
  /\ ev.op = "beforeExit" /\ ~ev.preBusy /\ ev.preLen = 2
  /\ ev.fetches = 1 /\ Len(LastCall.batch) = 2 /\ logs = <<>>

----------------------------------------------------------------------------
\* C24: between handlers, whenever no delivery is in flight the buffer holds
\* fewer than batchSize lines (batchSize >= 1); so a flush started by the
\* deadline or by 'beforeExit' takes the whole buffer.
C24_IdleBelowBatchSize ==
  /\ options.batchSize >= 1
  /\ (Ready /\ ~apiCallInProgress) => Len(logs) < options.batchSize
  /\ (ev.op \in {"timer", "beforeExit"} /\ ev.fetches = 1)
       => (logs = <<>> /\ Len(LastCall.batch) = ev.preLen)

\* a delivery completes with lines waiting, fewer than batchSize: the
\* instance is idle with a non-empty buffer
C24_Witness ==
  /\ Completion /\ ~apiCallInProgress
  /\ logs # <<>> /\ Len(logs) < options.batchSize
  /\ options.batchSize = MaxBatch

----------------------------------------------------------------------------
\* C25: no line is stranded. Between handlers, whenever lines are buffered
\* and no delivery is in flight, the timeout this.timer names is pending, after
\* any sequence of _transform, timer, 'beforeExit' and completion steps.
C25_NoStrandedEntries ==
  (Ready /\ logs # <<>> /\ ~apiCallInProgress)
    => (liveTimers # {} /\ \E t \in liveTimers : t.id = timer)

\* a deadline expired during a delivery, which then failed with a line
\* waiting: a new deadline is pending for that line
C25_Witness ==
  /\ Completion /\ ev.waited /\ Failed(Len(calls))
  /\ logs # <<>> /\ ~apiCallInProgress
  /\ Cardinality(liveTimers) = 1

----------------------------------------------------------------------------
(* C26: liveness.  The event loop runs the callback of every timeout that *)
(* stays pending, and every promise of fetch() and of response.json() is   *)
(* assumed to settle.                                                      *)

\* the number of lines that arrive in the runs the liveness is checked on
LiveAccepts == 2

\* the options objects the liveness is checked on: the default batch size of
\* 100 lines (never reached, so that the deadline alone flushes), batches of
\* one line, a batch size the buffer reaches, and that one with the success
\* diagnostic switched off
LiveOptions ==
  { Plain,
    [Plain EXCEPT !.batchSize = Num(1)],
    [Plain EXCEPT !.batchSize = Num(MaxBatch)],
    [Plain EXCEPT !.batchSize = Num(MaxBatch), !.silentSuccess = Flag(TRUE)] }

LiveInit == Init /\ given \in LiveOptions

LiveAccept == Accept /\ Len(accepted) < LiveAccepts

LiveNext ==
  \/ Construct
  \/ LiveAccept
  \/ TimerFires
  \/ BeforeExit
  \/ SendLogsCall
  \/ FetchSettles
  \/ JsonSettles

LiveSpec ==
  /\ LiveInit /\ [][LiveNext]_vars
  /\ WF_vars(TimerFires)
  /\ WF_vars(FetchSettles)
  /\ WF_vars(JsonSettles)

\* line k is in the batch of a delivery call and no longer in the buffer
Shipped(k) ==
  /\ k \notin Ids(logs)
  /\ \E i \in 1..Len(calls) : k \in Ids(calls[i].batch)

AllShipped == \A k \in 1..Len(accepted) : Shipped(k)

\* at rest; a further fetch would make Outstanding non-empty
Quiescent ==
  /\ logs = <<>>
  /\ ~apiCallInProgress
  /\ Outstanding = {}
  /\ liveTimers = {}

\* C26: if every delivery call completes and every timeout left pending
\* expires, then from some point on every line accepted so far is in the batch
\* of a delivery call and the instance is at rest for good: buffer empty,
\* nothing in flight, no timeout pending, hence no further call (at most
\* LiveAccepts lines arrive, and they may stop arriving at any point).
C26_Liveness == <>[](Quiescent /\ AllShipped)

\* every line that arrived has been shipped and the instance is at rest after
\* the expiry of the deadline its last completion armed
C26_Witness ==
  /\ Len(accepted) = LiveAccepts /\ AllShipped
  /\ Quiescent /\ ev.op = "timer" /\ ev.preLen = 0 /\ Len(calls) >= 2

----------------------------------------------------------------------------
\* the call whose completion the last handler was
CompletedCall == Len(calls) - ev.fetches

\* C27: a 2xx response whose body does not parse, with silentSuccess false,
\* is handled as a failure: no success diagnostic, the error diagnostic once
\* (none under silentError), the flag cleared, the schedule decision run, the
\* batch not put back. With silentSuccess true the body is never read and a
\* 2xx response emits nothing.
C27_UnparsableBody ==
  /\ (ev.op = "afterJson" /\ ev.caught = 1)
       => LET c == calls[CompletedCall]
          IN  /\ ~options.silentSuccess
              /\ c.result.kind = "response" /\ ResponseOk(c.result)
              /\ c.status = "done" /\ ev.settled = 1
              /\ Emitted(CompletedCall, "log") = 0
              /\ c.diags = IF options.silentError THEN <<>>
                                                  ELSE <<ErrorDiag("SyntaxError")>>
              /\ ev.scheds = 1
              /\ apiCallInProgress = (ev.fetches = 1)
              /\ Ids(c.batch) \cap Ids(logs) = {}
              /\ Len(logs) + (IF ev.fetches = 1 THEN Len(LastCall.batch) ELSE 0) = ev.preLen
  /\ ev.op = "afterJson" => (ev.settled = 1 /\ ~options.silentSuccess)
  /\ options.silentSuccess
       => \A i \in 1..Len(calls) :
            /\ calls[i].status # "json"
            /\ (calls[i].result.kind = "response" /\ ResponseOk(calls[i].result))
                 => (calls[i].status = "done" /\ calls[i].diags = <<>>)

\* the body of a 200 response did not parse while a full batch was waiting:
\* one error diagnostic, and the next batch is sent
C27_Witness ==
  /\ ev.op = "afterJson" /\ ev.caught = 1 /\ ~options.silentError
  /\ calls[CompletedCall].diags = <<ErrorDiag("SyntaxError")>>
  /\ ev.fetches = 1 /\ apiCallInProgress

====
